---------------------------- MODULE Spec2Model ----------------------------
(***************************************************************************)
(* A model of the tetrus game engine: the board (game.rs, Tets), the piece *)
(* geometry and wall-kick rotation (tet.rs, Tet) and the session           *)
(* (game.rs, Game: update, key_down_event, key_up_event).                  *)
(*                                                                         *)
(* Durations are whole milliseconds.  Coordinates are the source's i8      *)
(* values; no computation of the model leaves the i8 range.                *)
(***************************************************************************)
EXTENDS Integers, Sequences, FiniteSets, TLC

\* Board dimensions.
TILES_WIDE == 10
TILES_HIGH == 20

\* Budget of state-changing events explored after a prefix.
MaxSteps == 4
\* How many of the shuffles of BatchList the randomizer may return.
NumBatches == 2

Cols == 0 .. (TILES_WIDE - 1)
Rows == 0 .. (TILES_HIGH - 1)

NoTet == "None"
TetType == {"I", "J", "L", "O", "S", "T", "Z"}

Pt(px, py) == [x |-> px, y |-> py]

Abs(n) == IF n < 0 THEN -n ELSE n

\* TetType::blocks
TetTypeBlocks(t) ==
    CASE t = "I" -> << Pt(0, 1), Pt(1, 1), Pt(2, 1), Pt(3, 1) >>
      [] t = "J" -> << Pt(0, 0), Pt(0, 1), Pt(1, 1), Pt(2, 1) >>
      [] t = "L" -> << Pt(0, 1), Pt(1, 1), Pt(2, 1), Pt(2, 0) >>
      [] t = "O" -> << Pt(0, 0), Pt(0, 1), Pt(1, 0), Pt(1, 1) >>
      [] t = "S" -> << Pt(0, 1), Pt(1, 1), Pt(1, 0), Pt(2, 0) >>
      [] t = "T" -> << Pt(1, 0), Pt(0, 1), Pt(1, 1), Pt(2, 1) >>
      [] t = "Z" -> << Pt(0, 0), Pt(1, 0), Pt(1, 1), Pt(2, 1) >>

\* enum Rot: Zero = 0, R = 1, Two = 2, L = 3
RotZero == 0
RotR == 1
RotTwo == 2
RotL == 3

\* Rot::c with L left where it is.
RotCStuck(r) ==
    CASE r = RotZero -> RotR
      [] r = RotR    -> RotTwo
      [] r = RotTwo  -> RotL
      [] r = RotL    -> RotL

\* Rot::c
RotC(r) ==
    CASE r = RotZero -> RotR
      [] r = RotR    -> RotTwo
      [] r = RotTwo  -> RotL
      [] r = RotL    -> RotZero

\* Rot::cc
RotCC(r) ==
    CASE r = RotZero -> RotL
      [] r = RotR    -> RotZero
      [] r = RotTwo  -> RotR
      [] r = RotL    -> RotTwo

C_KICKS ==
    << << <<0, 0>>, <<-1, 0>>, <<-1, -1>>, <<0,  2>>, <<-1,  2>> >>,
       << <<0, 0>>, << 1, 0>>, << 1,  1>>, <<0, -2>>, << 1, -2>> >>,
       << <<0, 0>>, << 1, 0>>, << 1, -1>>, <<0,  2>>, << 1,  2>> >>,
       << <<0, 0>>, <<-1, 0>>, <<-1,  1>>, <<0, -2>>, <<-1, -2>> >> >>

C_I_KICKS ==
    << << <<0, 0>>, <<-2, 0>>, << 1, 0>>, <<-2,  1>>, << 1, -2>> >>,
       << <<0, 0>>, <<-1, 0>>, << 2, 0>>, <<-1, -2>>, << 2,  1>> >>,
       << <<0, 0>>, << 2, 0>>, <<-1, 0>>, << 2, -1>>, <<-1,  2>> >>,
       << <<0, 0>>, << 1, 0>>, <<-2, 0>>, << 1,  2>>, <<-2, -1>> >> >>

CC_KICKS ==
    << << <<0, 0>>, << 1, 0>>, << 1, -1>>, <<0,  2>>, << 1,  2>> >>,
       << <<0, 0>>, <<-1, 0>>, <<-1,  1>>, <<0, -2>>, << 1, -2>> >>,
       << <<0, 0>>, <<-1, 0>>, <<-1, -1>>, <<0,  2>>, <<-1,  2>> >>,
       << <<0, 0>>, << 1, 0>>, << 1,  1>>, <<0, -2>>, << 1, -2>> >> >>

CC_I_KICKS ==
    << << <<0, 0>>, <<-1, 0>>, << 2, 0>>, <<-1, -2>>, << 2,  1>> >>,
       << <<0, 0>>, <<-2, 0>>, << 1, 0>>, <<-2,  1>>, << 1, -2>> >>,
       << <<0, 0>>, << 1, 0>>, <<-2, 0>>, << 1,  2>>, <<-2, -1>> >>,
       << <<0, 0>>, << 2, 0>>, <<-1, 0>>, << 2, -1>>, <<-1,  2>> >> >>

(***************************************************************************)
(* Board: struct Tets, rows 0 (top) .. TILES_HIGH-1 of TILES_WIDE cells.   *)
(***************************************************************************)
EmptyRow == [c \in Cols |-> NoTet]

\* Tets::default
TetsDefault == [r \in Rows |-> EmptyRow]

\* Tets::at: an index outside the array (a negative i8 cast to usize is out
\* of range too) yields None.
At(tets, row, col) ==
    IF row \in Rows /\ col \in Cols THEN tets[row][col] ELSE NoTet

\* Tets::set indexes the arrays directly: an out-of-range index panics.
SetInRange(row, col) == row \in Rows /\ col \in Cols

TetsSet(tets, row, col, val) == [tets EXCEPT ![row][col] = val]

\* Tets::row_full
RowFull(tets, row) == \A c \in Cols : tets[row][c] # NoTet

\* The loop of Tets::clear: for row in (0..row).rev(), tets[row+1] = tets[row].
RECURSIVE ClearShift(_, _)
ClearShift(tets, r) ==
    IF r < 0 THEN tets
    ELSE ClearShift([tets EXCEPT ![r + 1] = tets[r]], r - 1)

\* Tets::clear
TetsClear(tets, row) == ClearShift([tets EXCEPT ![row] = EmptyRow], row - 1)

(***************************************************************************)
(* Piece: struct Tet.                                                      *)
(***************************************************************************)
\* Tet::new
TetNew(t, p) == [tet_type |-> t, blocks |-> TetTypeBlocks(t), pos |-> p, rot |-> RotZero]

\* Tet::at_bottom testing the floor only.
AtBottomFloorOnly(tet, tets) ==
    \E i \in 1 .. 4 : tet.pos.y + tet.blocks[i].y + 1 >= TILES_HIGH

\* Tet::at_bottom
AtBottom(tet, tets) ==
    \E i \in 1 .. 4 :
        \/ tet.pos.y + tet.blocks[i].y + 1 >= TILES_HIGH
        \/ At(tets, tet.pos.y + tet.blocks[i].y + 1, tet.pos.x + tet.blocks[i].x) # NoTet

\* Tet::fall; the result is [ok, tet]: the returned bool and the piece after.
TetFall(tet, tets) ==
    IF \E i \in 1 .. 4 :
          \/ tet.pos.y + tet.blocks[i].y + 1 >= TILES_HIGH
          \/ At(tets, tet.pos.y + tet.blocks[i].y + 1, tet.pos.x + tet.blocks[i].x) # NoTet
    THEN [ok |-> FALSE, tet |-> tet]
    ELSE [ok |-> TRUE, tet |-> [tet EXCEPT !.pos.y = @ + 1]]

\* Tet::move_left testing the wall only.
TetMoveLeftWallOnly(tet, tets) ==
    IF \E i \in 1 .. 4 : tet.pos.x + tet.blocks[i].x = 0
    THEN [ok |-> FALSE, tet |-> tet]
    ELSE [ok |-> TRUE, tet |-> [tet EXCEPT !.pos.x = @ - 1]]

\* Tet::move_left
TetMoveLeft(tet, tets) ==
    IF \E i \in 1 .. 4 :
          \/ tet.pos.x + tet.blocks[i].x = 0
          \/ At(tets, tet.pos.y + tet.blocks[i].y, tet.pos.x + tet.blocks[i].x - 1) # NoTet
    THEN [ok |-> FALSE, tet |-> tet]
    ELSE [ok |-> TRUE, tet |-> [tet EXCEPT !.pos.x = @ - 1]]

\* Tet::move_right
TetMoveRight(tet, tets) ==
    IF \E i \in 1 .. 4 :
          \/ tet.pos.x + tet.blocks[i].x + 1 >= TILES_WIDE
          \/ At(tets, tet.pos.y + tet.blocks[i].y, tet.pos.x + tet.blocks[i].x + 1) # NoTet
    THEN [ok |-> FALSE, tet |-> tet]
    ELSE [ok |-> TRUE, tet |-> [tet EXCEPT !.pos.x = @ + 1]]

\* enum RotationDir
Clockwise == "Clockwise"
CounterClockwise == "CounterClockwise"

\* Tet::rotate_blocks
RotateBlocks(tet, dir) ==
    LET n == IF tet.tet_type = "I" THEN 3 ELSE 2
    IN  IF dir = Clockwise
        THEN [i \in 1 .. 4 |-> Pt(Abs(n - tet.blocks[i].y), tet.blocks[i].x)]
        ELSE [i \in 1 .. 4 |-> Pt(tet.blocks[i].y, Abs(n - tet.blocks[i].x))]

\* The closure can_move without its test of the floor.
CanMoveNoFloor(tet, moved_blocks, tets, dx, dy) ==
    \A i \in 1 .. 4 :
        LET x == tet.pos.x + moved_blocks[i].x + dx
            y == tet.pos.y + moved_blocks[i].y + dy
        IN  ~ (x < 0 \/ x >= TILES_WIDE \/ At(tets, y, x) # NoTet)

\* The closure can_move of Tet::rotate: no upper bound on y.
CanMove(tet, moved_blocks, tets, dx, dy) ==
    \A i \in 1 .. 4 :
        LET x == tet.pos.x + moved_blocks[i].x + dx
            y == tet.pos.y + moved_blocks[i].y + dy
        IN  ~ (x < 0 \/ x >= TILES_WIDE \/ y >= TILES_HIGH \/ At(tets, y, x) # NoTet)

\* The choice `tests` of Tet::rotate.
KickTable(tet, dir) ==
    IF dir = Clockwise
    THEN (IF tet.tet_type = "I" THEN C_I_KICKS ELSE C_KICKS)
    ELSE (IF tet.tet_type = "I" THEN CC_I_KICKS ELSE CC_KICKS)

\* The row `tests[self.rot as usize]` of Tet::rotate.
KickRow(tet, dir) == KickTable(tet, dir)[tet.rot + 1]

\* The rotation-state update of an accepted rotation: the source calls
\* self.rot.c() whatever the direction.
RotAdvance(rot, dir) == RotC(rot)

\* Tet::rotate without its early return for the O piece.
TetRotateAlsoO(tet, dir, tets) ==
    LET moved_blocks == RotateBlocks(tet, dir)
        tests == KickRow(tet, dir)
        okay == {k \in 1 .. 5 : CanMove(tet, moved_blocks, tets, tests[k][1], tests[k][2])}
    IN  IF okay = {} THEN [ok |-> FALSE, tet |-> tet]
        ELSE
          LET k == CHOOSE j \in okay : \A l \in okay : j <= l
          IN  [ok |-> TRUE,
               tet |-> [tet EXCEPT !.blocks = moved_blocks,
                                   !.pos.x = @ + tests[k][1],
                                   !.pos.y = @ + tests[k][2],
                                   !.rot = RotAdvance(tet.rot, dir)]]

\* Tet::rotate; the result is [ok, tet].
TetRotate(tet, dir, tets) ==
    IF tet.tet_type = "O" THEN [ok |-> TRUE, tet |-> tet]
    ELSE
      LET moved_blocks == RotateBlocks(tet, dir)
          tests == KickRow(tet, dir)
          okay == {k \in 1 .. 5 : CanMove(tet, moved_blocks, tets, tests[k][1], tests[k][2])}
      IN  IF okay = {} THEN [ok |-> FALSE, tet |-> tet]
          ELSE
            LET k == CHOOSE j \in okay : \A l \in okay : j <= l
            IN  [ok |-> TRUE,
                 tet |-> [tet EXCEPT !.blocks = moved_blocks,
                                     !.pos.x = @ + tests[k][1],
                                     !.pos.y = @ + tests[k][2],
                                     !.rot = RotAdvance(tet.rot, dir)]]

(***************************************************************************)
(* Session: struct Game.  A session is a record of the struct's fields     *)
(* (the assets are rendering data and are left out).                       *)
(***************************************************************************)
NORMAL_INTERVAL == 1000
LOCK_DELAY == 500
SOFT_DROP_INTERVAL == 100
SPAWN_INTERVAL == 0
MOVE_WAIT == 300
MOVE_INTERVAL == 70

\* lazy_static NORMAL_INTERVALS, index level 0 .. 20:
\* ((0.8 - (level-1) * 0.007)^(level-1) * 1000) as u64, in f32 arithmetic.
NORMAL_INTERVALS ==
    << 1239, 1000, 793, 617, 472, 355, 262, 189, 134, 93, 64,
       42, 28, 18, 11, 7, 4, 2, 1, 0, 0 >>

\* The position every piece is created at: Point2::new(3, 0).
SpawnPos == Pt(3, 0)

\* Some results of TetType::batch (a shuffle of the 7 types).
BatchList ==
    << << "T", "I", "O", "J", "L", "S", "Z" >>,
       << "I", "J", "O", "T", "S", "Z", "L" >>,
       << "O", "L", "I", "Z", "T", "J", "S" >>,
       << "S", "Z", "J", "L", "I", "O", "T" >> >>

Min(a, b) == IF a < b THEN a ELSE b

\* TetType::batch: one of the shuffles the randomizer may return.
Batches == {BatchList[k] : k \in 1 .. Min(NumBatches, Len(BatchList))}

\* Game::new
GameNew(batch) ==
    [state        |-> "Playing",
     score        |-> 0,
     lines        |-> 0,
     tets         |-> TetsDefault,
     current_tet  |-> TetNew(batch[1], SpawnPos),
     has_tet      |-> TRUE,
     next_batch   |-> batch,
     next_tet     |-> 1,
     held_tet     |-> NoTet,
     already_held |-> FALSE,
     fall_timer   |-> NORMAL_INTERVAL,
     fall_mode    |-> "Normal",
     spawn_timer  |-> SPAWN_INTERVAL,
     move_timer   |-> MOVE_WAIT,
     moving       |-> "None"]

\* Game::restart
GameRestart(g, batch) ==
    [g EXCEPT !.state = "Playing",
              !.score = 0,
              !.lines = 0,
              !.tets = TetsDefault,
              !.next_batch = batch,
              !.current_tet = TetNew(batch[1], SpawnPos),
              !.has_tet = TRUE,
              !.next_tet = 1,
              !.held_tet = NoTet,
              !.already_held = FALSE]

\* Game::level
Level(g) == Min(1 + (g.lines \div 10), 20)

\* Game::fall_interval
FallInterval(g) ==
    IF g.fall_mode = "Normal" THEN NORMAL_INTERVALS[Level(g) + 1]
    ELSE SOFT_DROP_INTERVAL

\* The match of Game::add_score.
LineScore(level, line_clears) ==
    CASE line_clears = 1 -> level * 100
      [] line_clears = 2 -> level * 300
      [] line_clears = 3 -> level * 500
      [] line_clears = 4 -> level * 800
      [] OTHER -> 0

\* Game::add_score with the level taken after the lines are added.
AddScoreLevelAfter(g, line_clears) ==
    [g EXCEPT !.score = @ + LineScore(Level([g EXCEPT !.lines = @ + line_clears]), line_clears)]

\* Game::add_score
AddScore(g, line_clears) == [g EXCEPT !.score = @ + LineScore(Level(g), line_clears)]

\* The first loop of Game::new_tet: the piece's blocks written with Tets::set.
RECURSIVE SetBlocks(_, _, _)
SetBlocks(tets, tet, i) ==
    IF i > 4 THEN tets
    ELSE SetBlocks(TetsSet(tets, tet.pos.y + tet.blocks[i].y,
                           tet.pos.x + tet.blocks[i].x, tet.tet_type), tet, i + 1)

\* Whether that loop indexes the board out of range (the process panics).
SetBlocksPanics(tet) ==
    \E i \in 1 .. 4 : ~ SetInRange(tet.pos.y + tet.blocks[i].y, tet.pos.x + tet.blocks[i].x)

\* The second loop of Game::new_tet: rows scanned top to bottom, each full
\* row cleared and counted.  The result is [tets, clears].
RECURSIVE ClearRows(_, _, _)
ClearRows(tets, row, clears) ==
    IF row >= TILES_HIGH THEN [tets |-> tets, clears |-> clears]
    ELSE IF RowFull(tets, row) THEN ClearRows(TetsClear(tets, row), row + 1, clears + 1)
    ELSE ClearRows(tets, row + 1, clears)

\* Game::new_tet leaving the scan at the first row it clears.
NewTetOneClear(g) ==
    IF SetBlocksPanics(g.current_tet) THEN [panic |-> TRUE, g |-> g]
    ELSE
      LET set == SetBlocks(g.tets, g.current_tet, 1)
          full == {r \in Rows : RowFull(set, r)}
          cr == IF full = {} THEN [tets |-> set, clears |-> 0]
                ELSE [tets |-> TetsClear(set, CHOOSE r \in full : \A q \in full : r <= q),
                      clears |-> 1]
          g1 == [g EXCEPT !.tets = cr.tets]
          g2 == IF cr.clears > 0
                THEN [AddScore(g1, cr.clears) EXCEPT !.lines = @ + cr.clears]
                ELSE g1
      IN  [panic |-> FALSE,
           g |-> [g2 EXCEPT !.has_tet = FALSE, !.spawn_timer = SPAWN_INTERVAL]]

\* Game::new_tet.  The result is [panic, g]: panic when Tets::set indexed out
\* of range, in which case the session is as the panic found it.
NewTet(g) ==
    IF SetBlocksPanics(g.current_tet) THEN [panic |-> TRUE, g |-> g]
    ELSE
      LET cr == ClearRows(SetBlocks(g.tets, g.current_tet, 1), 0, 0)
          g1 == [g EXCEPT !.tets = cr.tets]
          g2 == IF cr.clears > 0
                THEN [AddScore(g1, cr.clears) EXCEPT !.lines = @ + cr.clears]
                ELSE g1
      IN  [panic |-> FALSE,
           g |-> [g2 EXCEPT !.has_tet = FALSE, !.spawn_timer = SPAWN_INTERVAL]]

\* Game::preview_tet
RECURSIVE FallAll(_, _)
FallAll(tet, tets) ==
    LET f == TetFall(tet, tets)
    IN  IF f.ok THEN FallAll(f.tet, tets) ELSE tet

PreviewTet(g) == FallAll(g.current_tet, g.tets)

\* The final assignment of Game::spawn_tet: has_tet = true, whatever the
\* loop before it found.
SpawnHasTet(dead) == TRUE

\* Game::spawn_tet
SpawnTet(g, tet_type) ==
    LET tet == TetNew(tet_type, SpawnPos)
        dead == \E i \in 1 .. 4 :
                   At(g.tets, tet.pos.y + tet.blocks[i].y, tet.pos.x + tet.blocks[i].x) # NoTet
    IN  [g EXCEPT !.current_tet = tet,
                  !.state = IF dead THEN "Dead" ELSE @,
                  !.has_tet = SpawnHasTet(dead)]

\* The loop of Game::hard_drop: fall while possible, 2 points a row.
RECURSIVE HardDropFall(_)
HardDropFall(g) ==
    LET f == TetFall(g.current_tet, g.tets)
    IN  IF f.ok THEN HardDropFall([g EXCEPT !.current_tet = f.tet, !.score = @ + 2])
        ELSE g

\* Game::hard_drop.  The result is [panic, g].
HardDrop(g) ==
    LET n == NewTet(HardDropFall(g))
    IN  IF n.panic THEN n
        ELSE [panic |-> FALSE, g |-> [n.g EXCEPT !.fall_timer = FallInterval(n.g)]]

\* fn decrement: [done, time].
Decrement(lhs, rhs) ==
    IF lhs < rhs \/ lhs - rhs = 0 THEN [done |-> TRUE, time |-> 0]
    ELSE [done |-> FALSE, time |-> lhs - rhs]

\* The queue step with the bag replaced one entry early.
AdvanceQueueEarly(g, batch) ==
    LET n == (g.next_tet + 1) % 6
    IN  [g EXCEPT !.next_tet = n, !.next_batch = IF n = 0 THEN batch ELSE @]

\* The queue step shared by the timer spawn and Hold: next_tet advanced,
\* the batch replaced by `batch` (a fresh TetType::batch) when it wraps.
AdvanceQueue(g, batch) ==
    LET n == (g.next_tet + 1) % 7
    IN  [g EXCEPT !.next_tet = n, !.next_batch = IF n = 0 THEN batch ELSE @]

\* The branch `if self.has_tet` of Game::update.  The result is [panic, g].
UpdateFall(g, delta) ==
    LET d == Decrement(g.fall_timer, delta)
    IN  IF ~ d.done THEN [panic |-> FALSE, g |-> [g EXCEPT !.fall_timer = d.time]]
        ELSE
          LET g1 == IF g.fall_mode = "SoftDrop" THEN [g EXCEPT !.score = @ + 1] ELSE g
              f == TetFall(g1.current_tet, g1.tets)
          IN  IF ~ f.ok THEN NewTet(g1)
              ELSE
                LET g2 == [g1 EXCEPT !.current_tet = f.tet]
                IN  [panic |-> FALSE,
                     g |-> [g2 EXCEPT !.fall_timer =
                                IF AtBottom(g2.current_tet, g2.tets) THEN LOCK_DELAY
                                ELSE FallInterval(g2)]]

\* The else branch of it: the spawn-delay timer and the timer spawn.
UpdateSpawn(g, delta, batch) ==
    LET d == Decrement(g.spawn_timer, delta)
    IN  IF ~ d.done THEN [g EXCEPT !.spawn_timer = d.time]
        ELSE
          LET g1 == AdvanceQueue(SpawnTet(g, g.next_batch[g.next_tet + 1]), batch)
          IN  [g1 EXCEPT !.already_held = FALSE, !.spawn_timer = SPAWN_INTERVAL]

\* The `match self.moving` of Game::update: horizontal auto-repeat.
UpdateMoving(g, delta) ==
    IF g.moving = "None" THEN g
    ELSE
      LET d == Decrement(g.move_timer, delta)
      IN  IF ~ d.done THEN [g EXCEPT !.move_timer = d.time]
          ELSE
            LET m == IF g.moving = "Left" THEN TetMoveLeft(g.current_tet, g.tets)
                     ELSE TetMoveRight(g.current_tet, g.tets)
                g1 == [g EXCEPT !.current_tet = m.tet]
                g2 == IF m.ok /\ AtBottom(g1.current_tet, g1.tets)
                      THEN [g1 EXCEPT !.fall_timer = LOCK_DELAY]
                      ELSE g1
            IN  [g2 EXCEPT !.move_timer = MOVE_INTERVAL]

\* Game::update without its early return in state Dead.
UpdateWhenDead(g, delta, batch) ==
    LET r == IF g.has_tet THEN UpdateFall(g, delta)
             ELSE [panic |-> FALSE, g |-> UpdateSpawn(g, delta, batch)]
    IN  IF r.panic THEN r
        ELSE [panic |-> FALSE, g |-> UpdateMoving(r.g, delta)]

\* Game::update with ggez::timer::delta = delta; batch is what TetType::batch
\* returns if the queue wraps.  The result is [panic, g].
Update(g, delta, batch) ==
    IF g.state = "Dead" THEN [panic |-> FALSE, g |-> g]
    ELSE
      LET r == IF g.has_tet THEN UpdateFall(g, delta)
               ELSE [panic |-> FALSE, g |-> UpdateSpawn(g, delta, batch)]
      IN  IF r.panic THEN r
          ELSE [panic |-> FALSE, g |-> UpdateMoving(r.g, delta)]

\* The arm KeyCode::Left of key_down_event (has_tet and not repeat).
KeyLeft(g) ==
    IF g.moving = "Left" THEN g
    ELSE
      LET m == TetMoveLeft(g.current_tet, g.tets)
          g1 == [g EXCEPT !.moving = "Left", !.move_timer = MOVE_WAIT, !.current_tet = m.tet]
      IN  IF m.ok /\ AtBottom(g1.current_tet, g1.tets)
          THEN [g1 EXCEPT !.fall_timer = LOCK_DELAY]
          ELSE g1

\* The arm KeyCode::Right.
KeyRight(g) ==
    IF g.moving = "Right" THEN g
    ELSE
      LET m == TetMoveRight(g.current_tet, g.tets)
          g1 == [g EXCEPT !.moving = "Right", !.move_timer = MOVE_WAIT, !.current_tet = m.tet]
      IN  IF m.ok /\ AtBottom(g1.current_tet, g1.tets)
          THEN [g1 EXCEPT !.fall_timer = LOCK_DELAY]
          ELSE g1

\* The rotate arms re-arming the lock delay wherever the piece is.
KeyRotateAlwaysArm(g, dir) ==
    LET r == TetRotate(g.current_tet, dir, g.tets)
        g1 == [g EXCEPT !.current_tet = r.tet]
    IN  IF r.ok THEN [g1 EXCEPT !.fall_timer = LOCK_DELAY] ELSE g1

\* The arms KeyCode::X | KeyCode::Up (Clockwise) and KeyCode::Z.
KeyRotate(g, dir) ==
    LET r == TetRotate(g.current_tet, dir, g.tets)
        g1 == [g EXCEPT !.current_tet = r.tet]
    IN  IF r.ok /\ AtBottom(g1.current_tet, g1.tets)
        THEN [g1 EXCEPT !.fall_timer = LOCK_DELAY]
        ELSE g1

\* The arm KeyCode::Down.
KeyDown(g, repeat) ==
    IF ~ repeat THEN [g EXCEPT !.fall_mode = "SoftDrop", !.fall_timer = 0] ELSE g

\* The guard of the Hold arm without its test of already_held.
HoldGuardAlways(g) == TRUE

\* The guard of the arm KeyCode::LShift | KeyCode::RShift.
HoldGuard(g) == ~ g.already_held

\* The Hold arm with the queue left where it was when no piece was held.
KeyHoldNoAdvance(g, batch) ==
    LET g1 == [g EXCEPT !.already_held = TRUE]
    IN  IF g1.held_tet # NoTet
        THEN SpawnTet([g1 EXCEPT !.held_tet = g1.current_tet.tet_type], g1.held_tet)
        ELSE
          LET g2 == [g1 EXCEPT !.held_tet = g1.current_tet.tet_type]
          IN  SpawnTet(g2, g2.next_batch[g2.next_tet + 1])

\* The arm KeyCode::LShift | KeyCode::RShift.
KeyHold(g, batch) ==
    LET g1 == [g EXCEPT !.already_held = TRUE]
    IN  IF g1.held_tet # NoTet
        THEN SpawnTet([g1 EXCEPT !.held_tet = g1.current_tet.tet_type], g1.held_tet)
        ELSE
          LET g2 == [g1 EXCEPT !.held_tet = g1.current_tet.tet_type]
          IN  AdvanceQueue(SpawnTet(g2, g2.next_batch[g2.next_tet + 1]), batch)

\* The keys the handlers tell apart (Up is X; RShift is LShift); "Other" is
\* any key none of the arms names.
KeyCodes == {"Left", "Right", "X", "Z", "Space", "Down", "LShift", "R", "Other"}

\* Game::key_down_event.  The result is [panic, g].
KeyDownEvent(g, keycode, repeat, batch) ==
    LET same == [panic |-> FALSE, g |-> g]
        ok(h) == [panic |-> FALSE, g |-> h]
    IN  IF g.state = "Dead"
        THEN (IF keycode = "R" THEN ok(GameRestart(g, batch)) ELSE same)
        ELSE
          CASE keycode = "Left" /\ g.has_tet /\ ~ repeat -> ok(KeyLeft(g))
            [] keycode = "Right" /\ g.has_tet /\ ~ repeat -> ok(KeyRight(g))
            [] keycode = "X" /\ g.has_tet -> ok(KeyRotate(g, Clockwise))
            [] keycode = "Z" /\ g.has_tet -> ok(KeyRotate(g, CounterClockwise))
            [] keycode = "Space" /\ g.has_tet -> HardDrop(g)
            [] keycode = "Down" -> ok(KeyDown(g, repeat))
            [] keycode = "LShift" /\ HoldGuard(g) -> ok(KeyHold(g, batch))
            [] OTHER -> same

\* Game::key_up_event clearing the direction whichever it is.
KeyUpEventAnyDirection(g, keycode) ==
    CASE keycode = "Down" -> [g EXCEPT !.fall_mode = "Normal"]
      [] keycode = "Left" -> [g EXCEPT !.moving = "None"]
      [] keycode = "Right" -> [g EXCEPT !.moving = "None"]
      [] OTHER -> g

\* Game::key_up_event
KeyUpEvent(g, keycode) ==
    CASE keycode = "Down" -> [g EXCEPT !.fall_mode = "Normal"]
      [] keycode = "Left" -> IF g.moving = "Left" THEN [g EXCEPT !.moving = "None"] ELSE g
      [] keycode = "Right" -> IF g.moving = "Right" THEN [g EXCEPT !.moving = "None"] ELSE g
      [] OTHER -> g

(***************************************************************************)
(* Events.  The event loop calls exactly one handler at a time: update     *)
(* (Tick), key_down_event or key_up_event.                                 *)
(***************************************************************************)
TickEv(delta, batch) == [kind |-> "Tick", delta |-> delta, batch |-> batch]
KeyDownEv(keycode, repeat, batch) ==
    [kind |-> "KeyDown", keycode |-> keycode, repeat |-> repeat, batch |-> batch]
KeyUpEv(keycode) == [kind |-> "KeyUp", keycode |-> keycode]

\* The handler the event loop calls for event e.  The result is [panic, g].
Handle(g, e) ==
    CASE e.kind = "Tick" -> Update(g, e.delta, e.batch)
      [] e.kind = "KeyDown" -> KeyDownEvent(g, e.keycode, e.repeat, e.batch)
      [] e.kind = "KeyUp" -> [panic |-> FALSE, g |-> KeyUpEvent(g, e.keycode)]

\* The name of event e in the vocabulary of the specification.
EventName(e) ==
    CASE e.kind = "Tick" -> "Tick"
      [] e.kind = "KeyDown" ->
           (CASE e.keycode = "Left" -> "MoveLeft"
              [] e.keycode = "Right" -> "MoveRight"
              [] e.keycode = "X" -> "RotateCW"
              [] e.keycode = "Z" -> "RotateCCW"
              [] e.keycode = "Space" -> "HardDrop"
              [] e.keycode = "Down" -> "SoftDropOn"
              [] e.keycode = "LShift" -> "Hold"
              [] e.keycode = "R" -> "Restart"
              [] OTHER -> "OtherKey")
      [] e.kind = "KeyUp" ->
           (CASE e.keycode = "Down" -> "SoftDropOff"
              [] e.keycode = "Left" -> "MoveLeftOff"
              [] e.keycode = "Right" -> "MoveRightOff"
              [] OTHER -> "OtherKeyUp")

(***************************************************************************)
(* The state machine.  game is the session; panicked tells that a handler  *)
(* panicked (the process is gone).  ev and draws are history: the last     *)
(* event that changed anything, and the piece types made current from the  *)
(* queue since construction or the last restart.  steps counts the events  *)
(* explored.  An event that changes nothing is a stuttering step.  call    *)
(* is used where a single function of the program is applied to drawn      *)
(* inputs: the function applied last and what it was applied to.           *)
(***************************************************************************)
VARIABLES game, panicked, ev, draws, steps, call

vars == << game, panicked, ev, draws, steps, call >>

NoCall == [fn |-> "none"]

\* The machine after construction with TetType::batch = batch.
MachNew(batch) ==
    [game |-> GameNew(batch), panicked |-> FALSE, ev |-> "New",
     draws |-> << batch[1] >>]

\* The machine m after event e, whose handler returned r = [panic, g].
Outcome(m, e, r) ==
    IF m.panicked \/ (~ r.panic /\ r.g = m.game) THEN m
    ELSE [game |-> r.g,
          panicked |-> r.panic,
          ev |-> EventName(e),
          draws |-> IF r.panic THEN m.draws
                    ELSE IF m.game.state = "Dead" /\ r.g.state = "Playing"
                         THEN << r.g.current_tet.tet_type >>
                    ELSE IF r.g.next_tet # m.game.next_tet
                         THEN Append(m.draws, r.g.current_tet.tet_type)
                    ELSE m.draws]

\* The machine m after event e.
Do(m, e) == Outcome(m, e, Handle(m.game, e))

\* The machine m after the events script[i], script[i+1], ... in order.
RECURSIVE Run(_, _, _)
Run(m, script, i) ==
    IF i > Len(script) THEN m ELSE Run(Do(m, script[i]), script, i + 1)

\* The values of ggez::timer::delta explored, in ms.
Deltas == {200, 1000}

\* The shuffles TetType::batch may return where the handler calls it: on a
\* restart and when the queue index wraps; it is not called otherwise.
BatchChoices(g) ==
    IF g.state = "Dead" \/ (g.next_tet + 1) % 7 = 0 THEN Batches ELSE {g.next_batch}

\* Event prefixes played from construction before the exploration starts:
\* k pieces hard-dropped where they spawn, each followed by the tick that
\* spawns the next one.  0 is the session as constructed; after 5 the queue
\* is one draw from its end; after 10 the stack reaches the spawn rows.
PrefixDrops == {0, 5, 10}

RECURSIVE DropScript(_, _)
DropScript(k, batch) ==
    IF k = 0 THEN << >>
    ELSE << KeyDownEv("Space", FALSE, batch), TickEv(1000, batch) >> \o DropScript(k - 1, batch)

Prefixes(batch) == {DropScript(k, batch) : k \in PrefixDrops}

Init ==
    /\ \E b \in Batches : \E script \in Prefixes(b) :
          LET m == Run(MachNew(b), script, 1)
          IN  /\ game = m.game
              /\ panicked = m.panicked
              /\ ev = m.ev
              /\ draws = m.draws
    /\ steps = 0
    /\ call = NoCall

\* The machine the variables hold.
Mach == [game |-> game, panicked |-> panicked, ev |-> ev, draws |-> draws]

\* A step from machine m to machine m2; an unchanged machine is a stuttering step.
StepTo(m, m2) ==
    IF m2 = m THEN UNCHANGED vars
    ELSE /\ game' = m2.game
         /\ panicked' = m2.panicked
         /\ ev' = m2.ev
         /\ draws' = m2.draws
         /\ steps' = steps + 1
         /\ call' = call

\* Event e happens.
Fire(e) ==
    /\ ~ panicked
    /\ steps < MaxSteps
    /\ StepTo(Mach, Do(Mach, e))

Tick ==
    \E delta \in Deltas, batch \in BatchChoices(game) : Fire(TickEv(delta, batch))

MoveLeft ==
    \E repeat \in BOOLEAN, batch \in BatchChoices(game) : Fire(KeyDownEv("Left", repeat, batch))

MoveRight ==
    \E repeat \in BOOLEAN, batch \in BatchChoices(game) : Fire(KeyDownEv("Right", repeat, batch))

RotateCW ==
    \E repeat \in BOOLEAN, batch \in BatchChoices(game) : Fire(KeyDownEv("X", repeat, batch))

RotateCCW ==
    \E repeat \in BOOLEAN, batch \in BatchChoices(game) : Fire(KeyDownEv("Z", repeat, batch))

HardDropKey ==
    \E repeat \in BOOLEAN, batch \in BatchChoices(game) : Fire(KeyDownEv("Space", repeat, batch))

SoftDropOn ==
    \E repeat \in BOOLEAN, batch \in BatchChoices(game) : Fire(KeyDownEv("Down", repeat, batch))

Hold ==
    \E repeat \in BOOLEAN, batch \in BatchChoices(game) : Fire(KeyDownEv("LShift", repeat, batch))

Restart ==
    \E repeat \in BOOLEAN, batch \in BatchChoices(game) : Fire(KeyDownEv("R", repeat, batch))

SoftDropOff == \E k \in {game.state} : Fire(KeyUpEv("Down"))

MoveLeftOff == \E k \in {game.state} : Fire(KeyUpEv("Left"))

MoveRightOff == \E k \in {game.state} : Fire(KeyUpEv("Right"))

Next ==
    \/ Tick
    \/ MoveLeft
    \/ MoveRight
    \/ RotateCW
    \/ RotateCCW
    \/ HardDropKey
    \/ SoftDropOn
    \/ Hold
    \/ Restart
    \/ SoftDropOff
    \/ MoveLeftOff
    \/ MoveRightOff

Spec == Init /\ [][Next]_vars

(***************************************************************************)
(* Single functions applied to drawn inputs.  A drawn board is empty but   *)
(* for BoardDepth consecutive rows, each one of a few row patterns.        *)
(***************************************************************************)
BoardDepth == 4

\* A row occupied (with type t) in the columns of set cs.
RowOf(cs, t) == [c \in Cols |-> IF c \in cs THEN t ELSE NoTet]

FullRowPat == RowOf(Cols, "I")
Gap1RowPat == RowOf(Cols \ {4}, "J")
Gap4RowPat == RowOf(Cols \ {3, 4, 5, 6}, "S")
HalfRowPat == RowOf(0 .. 3, "L")

\* The board whose rows top, top+1, ... are pats[1], pats[2], ...
PatBoard(top, pats) ==
    [r \in Rows |-> IF r >= top /\ r < top + Len(pats) THEN pats[r - top + 1] ELSE EmptyRow]

\* The session of GameNew with board tets and no active piece.
BoardGame(tets) ==
    [GameNew(BatchList[1]) EXCEPT !.tets = tets, !.has_tet = FALSE]

\* Boards Tets::clear is applied to: some rows full, at the top of the board
\* and lower.
ClearBoards ==
    {PatBoard(top, pats) :
        top \in {0, 5},
        pats \in [1 .. BoardDepth -> {EmptyRow, FullRowPat, Gap1RowPat, HalfRowPat}]}

InitClear ==
    /\ game \in {BoardGame(b) : b \in ClearBoards}
    /\ panicked = FALSE
    /\ ev = "New"
    /\ draws = << >>
    /\ steps = 0
    /\ call = NoCall

\* Tets::clear(row) on a full row of a drawn board.
ClearRow ==
    \E row \in Rows :
        /\ call = NoCall
        /\ RowFull(game.tets, row)
        /\ game' = [game EXCEPT !.tets = TetsClear(game.tets, row)]
        /\ call' = [fn |-> "clear", row |-> row]
        /\ UNCHANGED << panicked, ev, draws, steps >>

NextClear == ClearRow

SpecClear == InitClear /\ [][NextClear]_vars

\* C3: clear_row(R) on a full row R leaves row 0 empty, makes every row r in
\* 1 .. R what row r-1 was, and leaves the rows below R as they were.
C3_ClearRowCollapses ==
    [][call'.fn = "clear" =>
          /\ game'.tets[0] = EmptyRow
          /\ \A r \in 1 .. call'.row : game'.tets[r] = game.tets[r - 1]
          /\ \A r \in (call'.row + 1) .. (TILES_HIGH - 1) : game'.tets[r] = game.tets[r]]_vars

\* Boards a piece is locked on: no row full, the patterned rows at the bottom.
LockBoards ==
    {PatBoard(TILES_HIGH - BoardDepth, pats) :
        pats \in [1 .. BoardDepth -> {Gap1RowPat, Gap4RowPat, HalfRowPat}]}

\* Piece tet turned clockwise n times where it is (blocks and rotation state).
RECURSIVE Turned(_, _)
Turned(tet, n) ==
    IF n = 0 THEN tet
    ELSE Turned([tet EXCEPT !.blocks = RotateBlocks(tet, Clockwise), !.rot = RotC(tet.rot)], n - 1)

\* Piece tet moved by (dx, dy).
Shifted(tet, dx, dy) == [tet EXCEPT !.pos = Pt(tet.pos.x + dx, tet.pos.y + dy)]

\* The pieces locked on board tets: a piece of any type, flat or upright,
\* dropped from the top rows to where it rests.
LockPieces(tets) ==
    {FallAll(Turned(TetNew(t, Pt(x, 0)), n), tets) : t \in TetType, n \in {0, 1}, x \in {2, 3}}

\* The line counts of the drawn sessions: levels 1, 1 (one line from level
\* 2), 3, 20 and past the cap.
LockLines == {0, 9, 25, 195, 300}

InitLock ==
    /\ \E b \in LockBoards : \E tet \in LockPieces(b) : \E l \in LockLines :
          game = [BoardGame(b) EXCEPT !.current_tet = tet, !.has_tet = TRUE, !.lines = l]
    /\ panicked = FALSE
    /\ ev = "New"
    /\ draws = << >>
    /\ steps = 0
    /\ call = NoCall

\* The rows the piece of session g completes: full once its blocks are written.
Completed(g) == {r \in Rows : RowFull(SetBlocks(g.tets, g.current_tet, 1), r)}

\* Game::new_tet on a drawn session whose piece rests.
Lock ==
    \E r \in {NewTet(game)} :
        /\ call = NoCall
        /\ ~ r.panic
        /\ game' = r.g
        /\ call' = [fn |-> "new_tet", lines |-> game.lines, score |-> game.score,
                    rows |-> Completed(game)]
        /\ UNCHANGED << panicked, ev, draws, steps >>

NextLock == Lock

SpecLock == InitLock /\ [][NextLock]_vars

\* The score of k completed rows at level 1, as the specification gives it.
ClearPoints(k) ==
    IF k = 1 THEN 100 ELSE IF k = 2 THEN 300 ELSE IF k = 3 THEN 500 ELSE IF k = 4 THEN 800 ELSE 0

\* C8: a lock that completes k rows adds level * {100, 300, 500, 800}[k] to
\* score, level = min(1 + lines/10, 20) taken from lines before the lock,
\* and then adds k to lines, whichever the rows are.
C8_LockScore ==
    [][call'.fn = "new_tet" =>
          LET k == Cardinality(Completed(game))
              level == IF 1 + (game.lines \div 10) < 20 THEN 1 + (game.lines \div 10) ELSE 20
          IN  /\ game'.score = game.score + level * ClearPoints(k)
              /\ game'.lines = game.lines + k]_vars

\* C8 witness: a lock at level 3 has completed 2 rows and added 3 * 300.
C8_Witness ==
    /\ call.fn = "new_tet"
    /\ call.lines = 25
    /\ game.lines = 27
    /\ game.score = call.score + 900

(***************************************************************************)
(* The functions of Tet applied to drawn pieces and boards, up to MaxOps   *)
(* calls in a row on the same piece.  call holds the function called last, *)
(* its direction and returned bool, the piece the calls started from, and  *)
(* turns: the number of calls so far if all were rotate in one direction,  *)
(* -1 otherwise.                                                           *)
(***************************************************************************)
MaxOps == 4

\* A row occupied in the spawn columns only.
TowerRowPat == RowOf(3 .. 6, "Z")

\* The board with a tower in the spawn columns from the floor up to row 2,
\* as hard drops without moves build it.
TowerBoard == PatBoard(2, [i \in 1 .. (TILES_HIGH - 2) |-> TowerRowPat])

\* The boards of the calls: empty, the tower, or BoardDepth bottom rows of
\* one pattern (a well of 1 column, a well of 4 columns, a stack against the
\* left wall).
TetBoards ==
    {TetsDefault, TowerBoard} \cup
    {PatBoard(TILES_HIGH - BoardDepth, [i \in 1 .. BoardDepth |-> pat]) :
        pat \in {Gap1RowPat, Gap4RowPat, HalfRowPat}}

\* Whether piece tet overlaps nothing on board tets and is inside the walls
\* and above the floor.
Placed(tet, tets) ==
    \A i \in 1 .. 4 :
        /\ tet.pos.x + tet.blocks[i].x \in Cols
        /\ tet.pos.y + tet.blocks[i].y < TILES_HIGH
        /\ At(tets, tet.pos.y + tet.blocks[i].y, tet.pos.x + tet.blocks[i].x) = NoTet

\* The pieces the calls start from: fresh pieces at the walls, at the spawn
\* column, at the top, over the stack and inside the wells.
TetStarts(tets) ==
    {tet \in {TetNew(t, Pt(x, y)) : t \in TetType, x \in {0, 3, 7}, y \in {0, 14, 17}} :
        Placed(tet, tets)}

InitTet ==
    /\ \E b \in TetBoards : \E tet \in TetStarts(b) :
          /\ game = [BoardGame(b) EXCEPT !.current_tet = tet, !.has_tet = TRUE]
          /\ call = [fn |-> "new", dir |-> "None", ret |-> TRUE, turns |-> 0, start |-> tet]
    /\ panicked = FALSE
    /\ ev = "New"
    /\ draws = << >>
    /\ steps = 0

\* The call of function fn (direction dir) that returned r = [ok, tet].
Called(fn, dir, r) ==
    /\ steps < MaxOps
    /\ game' = [game EXCEPT !.current_tet = r.tet]
    /\ call' = [fn |-> fn, dir |-> dir, ret |-> r.ok, start |-> call.start,
                turns |-> IF fn = "rotate" /\ call.turns = steps /\ (steps = 0 \/ call.dir = dir)
                          THEN steps + 1 ELSE -1]
    /\ steps' = steps + 1
    /\ UNCHANGED << panicked, ev, draws >>

FallCall == \E r \in {TetFall(game.current_tet, game.tets)} : Called("fall", "None", r)

MoveLeftCall == \E r \in {TetMoveLeft(game.current_tet, game.tets)} : Called("move_left", "None", r)

MoveRightCall == \E r \in {TetMoveRight(game.current_tet, game.tets)} : Called("move_right", "None", r)

RotateCall ==
    \E dir \in {Clockwise, CounterClockwise} :
        \E r \in {TetRotate(game.current_tet, dir, game.tets)} : Called("rotate", dir, r)

AtBottomCall ==
    \E b \in {AtBottom(game.current_tet, game.tets)} :
        Called("at_bottom", "None", [ok |-> b, tet |-> game.current_tet])

NextTet == FallCall \/ MoveLeftCall \/ MoveRightCall \/ RotateCall \/ AtBottomCall

SpecTet == InitTet /\ [][NextTet]_vars

\* C13: a fall, move or rotate that cannot be performed returns false and
\* leaves blocks, position and rotation state as they were; one that returns
\* true moves the piece one cell down / left / right (fall / move) and
\* changes nothing else; the board is never changed.
C13_RejectedUntouched ==
    [][call' # call =>
          LET fn == call'.fn
              t == game.current_tet
              t2 == game'.current_tet
              d == CASE fn = "fall" -> << 0, 1 >>
                     [] fn = "move_left" -> << -1, 0 >>
                     [] fn = "move_right" -> << 1, 0 >>
                     [] OTHER -> << 0, 0 >>
          IN  /\ game'.tets = game.tets
              /\ (fn \in {"fall", "move_left", "move_right", "rotate"} /\ ~ call'.ret) => t2 = t
              /\ fn \in {"fall", "move_left", "move_right"} =>
                    /\ call'.ret = Placed(Shifted(t, d[1], d[2]), game.tets)
                    /\ call'.ret => t2 = Shifted(t, d[1], d[2])]_vars

\* C13 witness: a move to the left was rejected after moves that succeeded.
C13_Witness ==
    /\ call.fn = "move_left"
    /\ ~ call.ret
    /\ game.current_tet.pos.x < call.start.pos.x

\* C14: 4 rotations in one direction of a fresh piece at the spawn position
\* on the empty board succeed each with candidate (0,0) and bring back the
\* blocks index by index, rotation state Zero and the position.
C14_FourTurns ==
    [][(/\ game.tets = TetsDefault
        /\ call.start.pos = SpawnPos
        /\ call'.fn = "rotate"
        /\ call'.turns >= 1) =>
          /\ call'.ret
          /\ game'.current_tet.pos = SpawnPos
          /\ call'.turns = 4 => game'.current_tet = call.start]_vars

\* C14 witness: the I piece has been turned counter-clockwise 4 times.
C14_Witness ==
    /\ game.tets = TetsDefault
    /\ call.start = TetNew("I", SpawnPos)
    /\ call.turns = 4
    /\ call.dir = CounterClockwise

\* C15: rotate on an O piece returns true and leaves blocks, position and
\* rotation state as they were, in either direction, on any board.
C15_ORotate ==
    [][(call'.fn = "rotate" /\ game.current_tet.tet_type = "O") =>
          (call'.ret /\ game'.current_tet = game.current_tet)]_vars

\* C15 witness: an O piece inside a well was rotated counter-clockwise.
C15_Witness ==
    /\ call.fn = "rotate"
    /\ call.dir = CounterClockwise
    /\ game.current_tet.tet_type = "O"
    /\ game.tets # TetsDefault
    /\ game.current_tet.pos.y + 1 >= TILES_HIGH - BoardDepth

\* C16: a successful rotate advances the rotation state by +1 mod 4 when
\* clockwise and by -1 mod 4 when counter-clockwise (the O piece, which
\* rotate leaves alone, set aside).
C16_RotAdvance ==
    [][(call'.fn = "rotate" /\ call'.ret /\ game.current_tet.tet_type # "O") =>
          game'.current_tet.rot =
              (game.current_tet.rot + (IF call'.dir = Clockwise THEN 1 ELSE 3)) % 4]_vars

\* C17: the blocks of the piece are the spawn offsets of its type turned
\* clockwise as many times as the value of its rotation state.
C17_BlocksMatchRot ==
    LET t == game.current_tet
    IN  t.blocks = Turned(TetNew(t.tet_type, t.pos), t.rot).blocks

\* Whether candidate k of kick row `row` is legal for piece t rotated to
\* blocks rb on board tets.
CandidateLegal(t, rb, row, k, tets) ==
    Placed(Shifted([t EXCEPT !.blocks = rb], row[k][1], row[k][2]), tets)

\* C18: rotate of a non-O piece tries the 5 candidates of the selected kick
\* row in order, the first (0,0), accepts the first legal one (position
\* moved by it, blocks the rotated set), and fails only if none is legal.
C18_FirstLegalKick ==
    [][(call'.fn = "rotate" /\ game.current_tet.tet_type # "O") =>
          LET t == game.current_tet
              t2 == game'.current_tet
              row == KickRow(t, call'.dir)
              rb == RotateBlocks(t, call'.dir)
              legal == {k \in 1 .. 5 : CandidateLegal(t, rb, row, k, game.tets)}
          IN  /\ Len(row) = 5
              /\ row[1] = << 0, 0 >>
              /\ call'.ret = (legal # {})
              /\ call'.ret =>
                    \E k \in legal :
                        /\ \A j \in legal : k <= j
                        /\ t2.blocks = rb
                        /\ t2.pos = Pt(t.pos.x + row[k][1], t.pos.y + row[k][2])]_vars

\* C18 witness: the first rotation of a piece was accepted with a kick.
C18_Witness ==
    /\ call.fn = "rotate"
    /\ call.turns = 1
    /\ call.ret
    /\ game.current_tet.pos # call.start.pos

\* The orientation of piece t: how many times its spawn offsets were turned
\* clockwise to give its blocks.
Orientation(t) ==
    CHOOSE k \in 0 .. 3 : t.blocks = Turned(TetNew(t.tet_type, t.pos), k).blocks

\* The kick row labelled, in the tables, with the transition that leaves
\* the orientation of piece t in direction dir: clockwise rows are in the
\* order 0, R, 2, L and counter-clockwise rows in the order 0, L, 2, R.
LabelledRow(t, dir) ==
    LET o == Orientation(t)
    IN  IF dir = Clockwise THEN KickTable(t, dir)[o + 1]
        ELSE KickTable(t, dir)[CASE o = RotZero -> 1
                                 [] o = RotL -> 2
                                 [] o = RotTwo -> 3
                                 [] o = RotR -> 4]

\* C19: the kick row tried by a rotation is the row of the transition that
\* leaves the orientation the blocks are in, after any mix of rotations.
C19_KickRowOfOrientation ==
    [][(call'.fn = "rotate" /\ game.current_tet.tet_type # "O") =>
          KickRow(game.current_tet, call'.dir) = LabelledRow(game.current_tet, call'.dir)]_vars

\* C20: at_bottom returns true exactly when an immediate fall would return
\* false, and changes neither piece nor board.
C20_AtBottomIffFallFails ==
    [][call'.fn = "at_bottom" =>
          /\ call'.ret = ~ TetFall(game.current_tet, game.tets).ok
          /\ game'.current_tet = game.current_tet
          /\ game'.tets = game.tets]_vars

\* C20 witness: at_bottom returned true for a piece resting on the stack,
\* above the floor.
C20_Witness ==
    /\ call.fn = "at_bottom"
    /\ call.ret
    /\ \A i \in 1 .. 4 : game.current_tet.pos.y + game.current_tet.blocks[i].y + 1 < TILES_HIGH

(***************************************************************************)
(* The handlers applied to drawn sessions whose piece rests on the stack   *)
(* or hangs two rows above it, with auto-repeat off or on: up to MaxCalls  *)
(* calls of update or of key_down_event (Left, Right, X, Z).  call holds   *)
(* the handler called last, its delta or key, the number of calls, and the *)
(* piece and fall timer the call found.                                    *)
(***************************************************************************)
MaxCalls == 2

\* The boards of the drawn sessions: BoardDepth bottom rows, all with a well
\* of 1 column, all stacked against the left wall, or the two alternating.
HandlerBoards ==
    {PatBoard(TILES_HIGH - BoardDepth, pats) :
        pats \in {[i \in 1 .. BoardDepth |-> Gap1RowPat],
                  [i \in 1 .. BoardDepth |-> HalfRowPat],
                  [i \in 1 .. BoardDepth |-> IF i % 2 = 1 THEN HalfRowPat ELSE Gap1RowPat]}}

\* The pieces of the drawn sessions on board tets: resting, or 2 rows higher.
HandlerPieces(tets) ==
    LockPieces(tets) \cup {Shifted(tet, 0, -2) : tet \in LockPieces(tets)}

InitHandler ==
    /\ \E b \in HandlerBoards : \E tet \in HandlerPieces(b) :
       \E mv \in {"None", "Left", "Right"} : \E mt \in {MOVE_INTERVAL, MOVE_WAIT} :
       \E ft \in {0, LOCK_DELAY} :
          /\ game = [BoardGame(b) EXCEPT !.current_tet = tet, !.has_tet = TRUE,
                                         !.moving = mv, !.move_timer = mt, !.fall_timer = ft]
          /\ call = [fn |-> "new", arg |-> 0, n |-> 0, tet |-> tet, ft |-> ft]
    /\ panicked = FALSE
    /\ ev = "New"
    /\ draws = << >>
    /\ steps = 0

\* The call of handler fn with argument arg that returned r = [panic, g].
Handled(fn, arg, r) ==
    /\ ~ panicked
    /\ call.n < MaxCalls
    /\ game' = r.g
    /\ panicked' = r.panic
    /\ call' = [fn |-> fn, arg |-> arg, n |-> call.n + 1,
                tet |-> game.current_tet, ft |-> game.fall_timer]
    /\ UNCHANGED << ev, draws, steps >>

UpdateCall ==
    \E delta \in Deltas, batch \in BatchChoices(game) :
        \E r \in {Update(game, delta, batch)} : Handled("update", delta, r)

KeyDownCall ==
    \E keycode \in {"Left", "Right", "X", "Z"}, batch \in BatchChoices(game) :
        \E r \in {KeyDownEvent(game, keycode, FALSE, batch)} : Handled("key_down", keycode, r)

NextHandler == UpdateCall \/ KeyDownCall

SpecHandler == InitHandler /\ [][NextHandler]_vars

\* The session when the auto-repeat step of the Tick call'.arg is evaluated:
\* after the fall branch or the spawn branch.
BeforeRepeat ==
    IF game.has_tet THEN UpdateFall(game, call'.arg).g
    ELSE UpdateSpawn(game, call'.arg, game.next_batch)

\* C21: if no piece is active when the auto-repeat step of a Tick is
\* evaluated (the piece was locked earlier in the Tick), the step changes
\* neither the position of the current piece nor the fall timer.
C21_RepeatGated ==
    [][(call'.fn = "update" /\ game.state = "Playing" /\ ~ panicked' /\ ~ BeforeRepeat.has_tet) =>
          /\ game'.current_tet.pos = BeforeRepeat.current_tet.pos
          /\ game'.fall_timer = BeforeRepeat.fall_timer]_vars

\* What the move or rotation of key press key returns on session g.
KeyAttempt(g, key) ==
    CASE key = "Left" -> TetMoveLeft(g.current_tet, g.tets)
      [] key = "Right" -> TetMoveRight(g.current_tet, g.tets)
      [] key = "X" -> TetRotate(g.current_tet, Clockwise, g.tets)
      [] key = "Z" -> TetRotate(g.current_tet, CounterClockwise, g.tets)

\* C22: a successful move (key press or auto-repeat) or rotation of the
\* active piece after which it is at_bottom sets the fall timer to the lock
\* delay, however often; a failed one, or one that leaves the piece not
\* at_bottom, leaves the fall timer as it was.
C22_LockDelayReset ==
    [][/\ (call'.fn = "key_down" /\ game.has_tet /\ game.state = "Playing") =>
             LET attempted == ~ (call'.arg = "Left" /\ game.moving = "Left")
                               /\ ~ (call'.arg = "Right" /\ game.moving = "Right")
                 touched == /\ attempted
                            /\ KeyAttempt(game, call'.arg).ok
                            /\ AtBottom(game'.current_tet, game'.tets)
             IN  game'.fall_timer = IF touched THEN LOCK_DELAY ELSE game.fall_timer
       /\ (call'.fn = "update" /\ game.state = "Playing" /\ ~ panicked' /\ BeforeRepeat.has_tet) =>
             LET g1 == BeforeRepeat
                 fires == g1.moving # "None" /\ Decrement(g1.move_timer, call'.arg).done
                 touched == /\ fires
                            /\ KeyAttempt(g1, g1.moving).ok
                            /\ AtBottom(game'.current_tet, game'.tets)
             IN  game'.fall_timer = IF touched THEN LOCK_DELAY ELSE g1.fall_timer]_vars

\* C22 witness: the second of two calls in a row, a key press, moved or
\* turned the piece and re-armed a lock delay that was running.
C22_Witness ==
    /\ call.fn = "key_down"
    /\ call.n = 2
    /\ game.has_tet
    /\ game.current_tet # call.tet
    /\ call.ft < LOCK_DELAY
    /\ game.fall_timer = LOCK_DELAY

(***************************************************************************)
(* Properties of the session.                                              *)
(***************************************************************************)
\* Piece tet is legal on board tets: columns in [0,W), rows < H, no block on
\* an occupied cell.
Legal(tet, tets) ==
    \A i \in 1 .. 4 :
        LET row == tet.pos.y + tet.blocks[i].y
            col == tet.pos.x + tet.blocks[i].x
        IN  col >= 0 /\ col < TILES_WIDE /\ row < TILES_HIGH /\ At(tets, row, col) = NoTet

\* C1: whenever the has-active-piece flag is set, each block of the current
\* piece is in a column of [0,W), in a row < H, and not on an occupied cell.
C1_ActivePieceLegal == game.has_tet => Legal(game.current_tet, game.tets)

\* C2: no event sequence makes a handler panic: every lock writes its 4
\* cells inside the board.
C2_NoPanic == ~ panicked

\* A step that attempts a spawn: the Tick of a session with no active piece
\* (the spawn delay is 0, so the timer is due), or a Hold that takes effect.
SpawnAttempt ==
    /\ game.state = "Playing"
    /\ ((ev' = "Tick" /\ ~ game.has_tet) \/ ev' = "Hold")

\* C4: a spawn attempt whose piece overlaps an occupied cell leaves the
\* session Dead with the has-active-piece flag false.
C4_SpawnCollisionDead ==
    [][(SpawnAttempt /\ ~ Legal(TetNew(game'.current_tet.tet_type, SpawnPos), game.tets))
          => (game'.state = "Dead" /\ ~ game'.has_tet)]_vars

\* C5: in a Dead session every event but Restart leaves the session Dead and
\* board, score, lines, current piece, held piece and queue as they were,
\* Restart makes it Playing, and Restart changes nothing while Playing.
C5_DeadTerminal ==
    [][/\ (game.state = "Dead" /\ ev' # "Restart") =>
             /\ game'.state = "Dead"
             /\ game'.tets = game.tets
             /\ game'.score = game.score
             /\ game'.lines = game.lines
             /\ game'.current_tet = game.current_tet
             /\ game'.held_tet = game.held_tet
             /\ game'.next_batch = game.next_batch
             /\ game'.next_tet = game.next_tet
       /\ (game.state = "Dead" /\ ev' = "Restart") => game'.state = "Playing"
       /\ game.state = "Playing" => ev' # "Restart"]_vars

\* C5 witness: an event other than Restart has acted on a Dead session.
C5_Witness ==
    /\ game.state = "Dead"
    /\ ev \in {"SoftDropOff", "MoveLeftOff", "MoveRightOff"}

\* C6: Restart leaves every component of the session as construction does,
\* up to the contents of the bag.
C6_RestartFresh == [][ev' = "Restart" => game' = GameNew(game'.next_batch)]_vars

\* C7: draws 7k+1 .. 7k+7 since construction or the last restart are the 7
\* types once each, and the bag is refilled exactly when its 7th entry was
\* taken: the draws of the current bag are its first next_tet entries.
C7_BagFair ==
    LET n == Len(draws)
        k == n % 7
    IN  /\ \A w \in 0 .. (n \div 7) :
              \A i, j \in (7 * w + 1) .. Min(7 * w + 7, n) :
                  draws[i] = draws[j] => i = j
        /\ game.next_tet = k
        /\ \A i \in 1 .. k : draws[n - k + i] = game.next_batch[i]

\* C7 witness: the first piece of a second bag has been drawn, after a Hold.
C7_Witness == Len(draws) >= 8 /\ game.held_tet # NoTet /\ ~ panicked

\* The ghost position of HardDrop and the rows it falls.
DropRows(g) == PreviewTet(g).pos.y - g.current_tet.pos.y

\* C9: HardDrop with an active piece moves it straight down to the ghost
\* position, n rows lower, adds 2n to score before the line-clear score, and
\* locks it there within the same event.
C9_HardDropLocks ==
    [][(ev' = "HardDrop" /\ game.has_tet) =>
          LET p == PreviewTet(game)
              n == DropRows(game)
              locked == NewTet([game EXCEPT !.current_tet = p, !.score = @ + 2 * n])
          IN  /\ ~ panicked'
              /\ p.pos.x = game.current_tet.pos.x
              /\ p.blocks = game.current_tet.blocks
              /\ game'.current_tet = p
              /\ ~ game'.has_tet
              /\ game'.tets = locked.g.tets
              /\ game'.score = locked.g.score
              /\ (game.tets = TetsDefault /\ game.current_tet = TetNew("I", SpawnPos)) =>
                     /\ \A c \in 3 .. 6 : game'.tets[TILES_HIGH - 1][c] = "I"
                     /\ game'.score = game.score + 2 * (TILES_HIGH - 1 - 1)]_vars

\* C10: once a piece is locked no piece is active until a later Tick spawns
\* one: only a Tick makes a piece active, and never the Tick that locked.
C10_SpawnOnlyByLaterTick ==
    [][game.state = "Playing" =>
          /\ (~ game.has_tet /\ game'.has_tet) => ev' = "Tick"
          /\ (game.has_tet /\ game'.tets # game.tets) => ~ game'.has_tet]_vars

\* C11: a Hold that takes effect stores the type of the current piece in the
\* held slot and marks hold-used; the new piece is a fresh piece of the type
\* held before with the queue as it was, or, with nothing held, of the next
\* type of the queue with the queue advanced by one.
C11_HoldSwaps ==
    [][ev' = "Hold" =>
          /\ game'.held_tet = game.current_tet.tet_type
          /\ game'.already_held
          /\ IF game.held_tet # NoTet
             THEN /\ game'.current_tet = TetNew(game.held_tet, SpawnPos)
                  /\ game'.next_tet = game.next_tet
                  /\ game'.next_batch = game.next_batch
             ELSE /\ game'.current_tet = TetNew(game.next_batch[game.next_tet + 1], SpawnPos)
                  /\ game'.next_tet = (game.next_tet + 1) % 7]_vars

\* C11 witness: a Hold has brought back the held piece (the active piece is
\* not the last one drawn from the queue).
C11_Witness ==
    /\ ev = "Hold"
    /\ game.current_tet.tet_type # draws[Len(draws)]
    /\ game.current_tet = TetNew(game.current_tet.tet_type, SpawnPos)

\* C12: a Hold with hold-used set changes nothing, and hold-used is cleared
\* only by the timer spawn of a Tick (or with the session, by Restart).
C12_OneHoldPerSpawn ==
    [][/\ ev' = "Hold" => ~ game.already_held
       /\ (game.already_held /\ ~ game'.already_held) =>
              \/ ev' = "Tick" /\ ~ game.has_tet /\ game.state = "Playing"
              \/ ev' = "Restart"]_vars

\* C12 witness: hold was used for the current piece and events have
\* followed it, any further Hold being without effect.
C12_Witness ==
    /\ game.already_held
    /\ game.state = "Playing"
    /\ game.has_tet
    /\ ev \in {"MoveLeft", "MoveRight", "RotateCW", "RotateCCW", "SoftDropOn"}

\* C23: SoftDropOff changes the fall mode (to Normal) and nothing else;
\* SoftDropOn sets the fall mode to SoftDrop and the fall timer to zero and
\* nothing else, so that with an active piece the next Tick makes one fall
\* attempt (one row down, or the lock) and adds 1 to score.
C23_SoftDrop ==
    [][/\ ev' = "SoftDropOff" => game' = [game EXCEPT !.fall_mode = "Normal"]
       /\ ev' = "SoftDropOn" => game' = [game EXCEPT !.fall_mode = "SoftDrop", !.fall_timer = 0]
       /\ (/\ ev' = "Tick"
           /\ game.state = "Playing"
           /\ game.has_tet
           /\ game.fall_mode = "SoftDrop"
           /\ game.fall_timer = 0) =>
              \/ /\ game'.has_tet
                 /\ game'.current_tet.pos.y = game.current_tet.pos.y + 1
                 /\ game'.tets = game.tets
                 /\ game'.score = game.score + 1
              \/ /\ ~ panicked'
                 /\ ~ game'.has_tet
                 /\ game'.tets = NewTet(game).g.tets
                 /\ game'.score = NewTet(game).g.score + 1]_vars

\* C24: the release of a movement key clears the auto-repeat direction only
\* if the direction set is the released one, and changes nothing else.
C24_ReleaseClearsOwnDirection ==
    [][/\ ev' = "MoveLeftOff" =>
             (game.moving = "Left" /\ game' = [game EXCEPT !.moving = "None"])
       /\ ev' = "MoveRightOff" =>
             (game.moving = "Right" /\ game' = [game EXCEPT !.moving = "None"])]_vars

\* C24 witness: Left was released while it was the direction set and a piece
\* was active, which cleared the direction.
C24_Witness ==
    /\ ev = "MoveLeftOff"
    /\ game.moving = "None"
    /\ game.has_tet
    /\ game.move_timer = MOVE_WAIT

\* C25: Hold takes effect only while a piece is active: between a lock and
\* the next spawn it stores nothing in the held slot, spawns no piece and
\* leaves the hold-used flag alone.
C25_HoldNeedsPiece ==
    [][(game.state = "Playing" /\ ~ game.has_tet /\ ev' # "Tick") =>
          /\ game'.held_tet = game.held_tet
          /\ game'.has_tet = game.has_tet
          /\ game'.current_tet = game.current_tet
          /\ game'.already_held = game.already_held]_vars

\* C26: between events no row of the board is fully occupied: a lock clears
\* every row it completes, also several at once, adjacent or apart, while
\* the rows above shift down during the scan.
C26_NoFullRow == \A r \in Rows : ~ RowFull(game.tets, r)

\* C26 witness: a lock has completed two rows with a row between them that
\* stayed, and the two have been cleared.
C26_Witness ==
    /\ call.fn = "new_tet"
    /\ \E r \in call.rows : call.rows = {r, r + 2}
    /\ game.lines = call.lines + 2
    /\ C26_NoFullRow

\* C28: whenever a piece becomes active, by the Tick that spawns after a
\* lock or by Hold, the fall timer is the fall interval of the current
\* level and fall mode.
C28_SpawnRearmsFallTimer ==
    [][(/\ ~ panicked'
        /\ game'.state = "Playing"
        /\ game'.has_tet
        /\ \/ ev' = "Tick" /\ ~ game.has_tet
           \/ ev' = "Hold") =>
          game'.fall_timer = FallInterval(game')]_vars

\* The row of counter-clockwise table cc labelled with the transition that
\* leaves orientation o: the rows are in the order 0, L, 2, R.
RowLabelledFrom(cc, o) ==
    cc[CASE o = RotZero -> 1
         [] o = RotL -> 2
         [] o = RotTwo -> 3
         [] o = RotR -> 4]

\* Counter-clockwise table cc mirrors clockwise table cw: row a of cw is
\* labelled A -> B with A the a-th of 0, R, 2, L and B the one after it, and
\* every candidate of the row of cc labelled B -> A is its negation.
Mirrors(cw, cc) ==
    \A a \in 1 .. 4 : \A k \in 1 .. 5 :
        RowLabelledFrom(cc, RotC(a - 1))[k] = << - cw[a][k][1], - cw[a][k][2] >>

\* C29: the counter-clockwise kick tables are the mirror images of the
\* clockwise ones: candidate k of the row labelled B -> A is the negation
\* of candidate k of the clockwise row A -> B, for the normal and the I
\* tables, whichever of them the piece at hand uses.
C29_KickTablesMirror ==
    Mirrors(KickTable(game.current_tet, Clockwise), KickTable(game.current_tet, CounterClockwise))

(***************************************************************************)
(* The session under ticks alone.  It starts where some key presses that   *)
(* leave no auto-repeat direction set have brought it after a prefix, and  *)
(* from then on the event loop delivers calls of update only, for as long  *)
(* as the process lives.                                                   *)
(***************************************************************************)

\* The key presses made before the ticks are left alone.
LiveKeys == {<< >>, << "X" >>, << "Z" >>, << "Down" >>, << "X", "Down" >>, << "LShift" >>}

\* The key-down events of the key codes keys, in order.
KeyScript(keys, batch) == [i \in 1 .. Len(keys) |-> KeyDownEv(keys[i], FALSE, batch)]

\* The pieces hard-dropped before them: the stack leaves room for a few more
\* pieces, or reaches the spawn rows.
LiveDrops == {6, 10}

InitLive ==
    /\ \E b \in Batches : \E k \in LiveDrops : \E script \in {DropScript(k, b)} :
       \E keys \in LiveKeys :
          LET m == Run(MachNew(b), script \o KeyScript(keys, b), 1)
          IN  /\ game = m.game
              /\ panicked = m.panicked
              /\ ev = m.ev
              /\ draws = m.draws
    /\ steps = 0
    /\ call = NoCall

\* Game::update is called with a positive delta.
LiveTick ==
    /\ ~ panicked
    /\ \E delta \in Deltas, batch \in BatchChoices(game) :
          \E m2 \in {Do(Mach, TickEv(delta, batch))} :
             /\ game' = m2.game
             /\ panicked' = m2.panicked
             /\ ev' = m2.ev
             /\ draws' = m2.draws
             /\ UNCHANGED << steps, call >>

NextLive == LiveTick

\* The event loop calls update on every frame while the process lives.
SpecLive == InitLive /\ [][NextLive]_vars /\ WF_vars(LiveTick)

\* C27: while Playing with a piece active, under ticks with positive delta
\* and no input event, the piece is eventually locked into the board or the
\* session is Dead.
C27_EventuallyLocked ==
    (game.state = "Playing" /\ game.has_tet) ~> (~ game.has_tet \/ game.state = "Dead")

=============================================================================
